---- MODULE Spec2Model ----
\* A model of the bucketed arena allocator of src/arena.go (package sbarena):
\* the Arena struct, NewArena, Alloc, Reset, Clear and the three getters,
\* together with the part of the Go runtime the allocator relies on (the heap
\* of buckets, the garbage collector and weak pointers).
\*
\* Several goroutines call Alloc, Reset and Clear on one shared Arena.  Each
\* call is split at the points where another goroutine can observe or change
\* the Arena: the spin on `writing`, the statements inside the guarded
\* section, the release of the guard and the return.
EXTENDS Integers, Sequences, FiniteSets, TLC

\* ---------------------------------------------------------------- bounds
NumThreads == 2      \* goroutines sharing the Arena
MaxOps == 2          \* calls made in a run of Spec (all goroutines together)
MaxSeqOps == 4       \* calls made in a run of SpecSeq (one goroutine)
MaxRefillOps == 6    \* calls made in a run of SpecRefill (one goroutine)
MaxSize == 2         \* largest unsafe.Sizeof(T) tried, besides bucketSize+1

\* ------------------------------------------------------ program constants
DefaultBlockSize == 65536
CallsPerThread == 2  \* Alloc calls of each goroutine of TestAllocConcurrent

Threads == 1..NumThreads

\* The arguments NewArena is called with: 0 asks for the default size.
BucketArgs == {0, 1, 2}

NoPtr == [bucket |-> 0, off |-> 0]
NilHandle == [bucket |-> 0, off |-> 0, size |-> 0]
\* The `val` of a slot nothing was stored through yet (no byte value).
NoVal == 0 - 1
NoRet == [handle |-> NilHandle, err |-> "none", id |-> 0]

VARIABLES
    buckets,     \* a.buckets: the sequence of bucket identities
    curBucket,   \* a.curBucket (0-based, as in the code)
    bytesLeft,   \* a.bytesLeft
    bucketSize,  \* a.bucketSize
    writing,     \* a.writing
    arg,         \* history: the argument NewArena was called with
    heap,        \* Go heap: bucket identity -> [len, data], for buckets not yet collected
    nextId,      \* number of buckets ever made by newBucket, plus one
    pc,          \* per goroutine: the statement it is about to execute
    size,        \* per goroutine: the local `size` of Alloc
    ptr,         \* per goroutine: the local `ptr` of Alloc (a strong reference)
    ret,         \* per goroutine: what its last Alloc call returned (id: the
                 \* history index of the slot it placed)
    calls,       \* per goroutine: number of calls it has made
    handles,     \* history: every weak pointer placed, in order of placement
    boundaries   \* history: one record per executed Reset or Clear

arena == <<buckets, curBucket, bytesLeft, bucketSize, writing, arg>>
vars == <<buckets, curBucket, bytesLeft, bucketSize, writing, arg, heap, nextId,
          pc, size, ptr, ret, calls, handles, boundaries>>

\* ------------------------------------------------------------- helpers
Range(s) == {s[i] : i \in 1..Len(s)}

RECURSIVE SumOver(_, _)
SumOver(f, S) ==
    IF S = {} THEN 0
    ELSE LET x == CHOOSE y \in S : TRUE IN f[x] + SumOver(f, S \ {x})

TotalCalls == SumOver(calls, Threads)

\* newBucket as make(bucket, 0, size): the capacity without the length.
newBucket_Empty(n) == [len |-> 0, data |-> << >>]

\* make(bucket, size, size): a zeroed byte slice of length and capacity size.
\* The data of a bucket is kept sparsely: an offset that was never written is
\* absent and reads as 0.
newBucket(n) == [len |-> n, data |-> << >>]

ByteAt(b, o) == IF o \in DOMAIN heap[b].data THEN heap[b].data[o] ELSE 0

\* NewArena without the substitution of the default at lines 76-78.
NewArena_NoDefault(bucketSizeBytes) ==
    /\ buckets = <<1>>
    /\ heap = (1 :> newBucket(bucketSizeBytes))
    /\ nextId = 2
    /\ curBucket = 0
    /\ bytesLeft = bucketSizeBytes
    /\ bucketSize = bucketSizeBytes
    /\ writing = FALSE
    /\ arg = bucketSizeBytes

\* NewArena that leaves the bucket list empty until the first Alloc.
NewArena_NoBucket(bucketSizeBytes) ==
    LET n == IF bucketSizeBytes <= 0 THEN DefaultBlockSize ELSE bucketSizeBytes
    IN  /\ buckets = << >>
        /\ heap = << >>
        /\ nextId = 1
        /\ curBucket = 0
        /\ bytesLeft = n
        /\ bucketSize = n
        /\ writing = FALSE
        /\ arg = bucketSizeBytes

\* NewArena: the fields of the Arena it returns, the bucket being the first
\* object of the heap.
NewArena(bucketSizeBytes) ==
    LET n == IF bucketSizeBytes <= 0 THEN DefaultBlockSize ELSE bucketSizeBytes
    IN  /\ buckets = <<1>>
        /\ heap = (1 :> newBucket(n))
        /\ nextId = 2
        /\ curBucket = 0
        /\ bytesLeft = n
        /\ bucketSize = n
        /\ writing = FALSE
        /\ arg = bucketSizeBytes

BucketSizeBytes == bucketSize
NumBuckets == Len(buckets)
TotalMemBytes == bucketSize * Len(buckets)

\* weak.Pointer.Value(): the referent while its bucket has not been collected.
Resolves(h) == h # NilHandle /\ h.bucket \in DOMAIN heap

Slot(h) == [bucket |-> h.bucket, off |-> h.off, size |-> h.size]

InitThreads ==
    /\ pc = [t \in Threads |-> "idle"]
    /\ size = [t \in Threads |-> 0]
    /\ ptr = [t \in Threads |-> NoPtr]
    /\ ret = [t \in Threads |-> NoRet]
    /\ calls = [t \in Threads |-> 0]
    /\ handles = << >>
    /\ boundaries = << >>

Init ==
    /\ \E n \in BucketArgs : NewArena(n)
    /\ InitThreads

\* The sizes of the types Alloc is instantiated with.
AllocSizes == (0..MaxSize) \cup {bucketSize + 1}

\* ------------------------------------------------------------- Alloc
\* AllocEnter without the size precondition of lines 110-116.
AllocEnter_NoCheck(t, s) ==
    /\ pc[t] = "idle"
    /\ calls' = [calls EXCEPT ![t] = @ + 1]
    /\ pc' = [pc EXCEPT ![t] = "alloc_cas"]
    /\ size' = [size EXCEPT ![t] = s]
    /\ ret' = [ret EXCEPT ![t] = NoRet]
    /\ UNCHANGED <<arena, heap, nextId, ptr, handles, boundaries>>

\* Alloc, lines 108-116: the call, size := unsafe.Sizeof(tmp) and the size
\* precondition, which is checked outside the guard (a.bucketSize is never
\* written after NewArena).
AllocEnter(t, s) ==
    /\ pc[t] = "idle"
    /\ calls' = [calls EXCEPT ![t] = @ + 1]
    /\ IF s > bucketSize
       THEN /\ ret' = [ret EXCEPT ![t] =
                          [handle |-> NilHandle, err |-> "ValueToLargeErr", id |-> 0]]
            /\ UNCHANGED <<pc, size>>
       ELSE /\ pc' = [pc EXCEPT ![t] = "alloc_cas"]
            /\ size' = [size EXCEPT ![t] = s]
            /\ ret' = [ret EXCEPT ![t] = NoRet]
    /\ UNCHANGED <<arena, heap, nextId, ptr, handles, boundaries>>

\* AllocAcquire with a plain store in place of the CompareAndSwap loop: the
\* goroutine enters whether or not the guard is held.
AllocAcquire_NoCas(t) ==
    /\ pc[t] = "alloc_cas"
    /\ writing' = TRUE
    /\ pc' = [pc EXCEPT ![t] = "alloc_grow"]
    /\ UNCHANGED <<buckets, curBucket, bytesLeft, bucketSize, arg, heap, nextId,
                   size, ptr, ret, calls, handles, boundaries>>

\* Alloc, lines 118-119: a successful a.writing.CompareAndSwap(false, true).
\* A failed CompareAndSwap changes nothing and is a stuttering step.
AllocAcquire(t) ==
    /\ pc[t] = "alloc_cas"
    /\ writing = FALSE
    /\ writing' = TRUE
    /\ pc' = [pc EXCEPT ![t] = "alloc_grow"]
    /\ UNCHANGED <<buckets, curBucket, bytesLeft, bucketSize, arg, heap, nextId,
                   size, ptr, ret, calls, handles, boundaries>>

\* AllocGrow that appends a bucket whenever the current one is too full, also
\* when the cursor is not on the last bucket.
AllocGrow_AlwaysAppend(t) ==
    /\ pc[t] = "alloc_grow"
    /\ IF Len(buckets) = 0
       THEN /\ buckets' = Append(buckets, nextId)
            /\ heap' = heap @@ (nextId :> newBucket(bucketSize))
            /\ nextId' = nextId + 1
            /\ bytesLeft' = bucketSize
            /\ curBucket' = 0
       ELSE IF bytesLeft < size[t]
       THEN /\ buckets' = Append(buckets, nextId)
            /\ heap' = heap @@ (nextId :> newBucket(bucketSize))
            /\ nextId' = nextId + 1
            /\ curBucket' = curBucket + 1
            /\ bytesLeft' = bucketSize
       ELSE UNCHANGED <<buckets, heap, nextId, curBucket, bytesLeft>>
    /\ pc' = [pc EXCEPT ![t] = "alloc_ptr"]
    /\ UNCHANGED <<bucketSize, arg, writing, size, ptr, ret, calls, handles, boundaries>>

\* AllocGrow that moves on when the value fills the space left exactly
\* (`<=` in place of `<` at line 125).
AllocGrow_Le(t) ==
    /\ pc[t] = "alloc_grow"
    /\ IF Len(buckets) = 0
       THEN /\ buckets' = Append(buckets, nextId)
            /\ heap' = heap @@ (nextId :> newBucket(bucketSize))
            /\ nextId' = nextId + 1
            /\ bytesLeft' = bucketSize
            /\ curBucket' = 0
       ELSE IF bytesLeft <= size[t]
       THEN /\ IF curBucket = Len(buckets) - 1
               THEN /\ buckets' = Append(buckets, nextId)
                    /\ heap' = heap @@ (nextId :> newBucket(bucketSize))
                    /\ nextId' = nextId + 1
               ELSE UNCHANGED <<buckets, heap, nextId>>
            /\ curBucket' = curBucket + 1
            /\ bytesLeft' = bucketSize
       ELSE UNCHANGED <<buckets, heap, nextId, curBucket, bytesLeft>>
    /\ pc' = [pc EXCEPT ![t] = "alloc_ptr"]
    /\ UNCHANGED <<bucketSize, arg, writing, size, ptr, ret, calls, handles, boundaries>>

\* Alloc, lines 121-131: make room for the value.
AllocGrow(t) ==
    /\ pc[t] = "alloc_grow"
    /\ IF Len(buckets) = 0
       THEN /\ buckets' = Append(buckets, nextId)
            /\ heap' = heap @@ (nextId :> newBucket(bucketSize))
            /\ nextId' = nextId + 1
            /\ bytesLeft' = bucketSize
            /\ curBucket' = 0
       ELSE IF bytesLeft < size[t]
       THEN /\ IF curBucket = Len(buckets) - 1
               THEN /\ buckets' = Append(buckets, nextId)
                    /\ heap' = heap @@ (nextId :> newBucket(bucketSize))
                    /\ nextId' = nextId + 1
               ELSE UNCHANGED <<buckets, heap, nextId>>
            /\ curBucket' = curBucket + 1
            /\ bytesLeft' = bucketSize
       ELSE UNCHANGED <<buckets, heap, nextId, curBucket, bytesLeft>>
    /\ pc' = [pc EXCEPT ![t] = "alloc_ptr"]
    /\ UNCHANGED <<bucketSize, arg, writing, size, ptr, ret, calls, handles, boundaries>>

\* AllocPtr that takes the slot from the end of the free space
\* (index bytesLeft - size in place of bucketSize - bytesLeft).
AllocPtr_FromEnd(t) ==
    /\ pc[t] = "alloc_ptr"
    /\ LET i == bytesLeft - size[t] IN
       IF /\ curBucket >= 0
          /\ curBucket < Len(buckets)
          /\ i >= 0
          /\ i < heap[buckets[curBucket + 1]].len
       THEN /\ ptr' = [ptr EXCEPT ![t] = [bucket |-> buckets[curBucket + 1], off |-> i]]
            /\ pc' = [pc EXCEPT ![t] = "alloc_dec"]
       ELSE /\ pc' = [pc EXCEPT ![t] = "panic"]
            /\ UNCHANGED ptr
    /\ UNCHANGED <<arena, heap, nextId, size, ret, calls, handles, boundaries>>

\* Alloc, line 133: ptr := &a.buckets[a.curBucket][a.bucketSize-a.bytesLeft].
\* Both index expressions are bounds-checked: an index out of range panics,
\* and the goroutine leaves Alloc without releasing the guard.
AllocPtr(t) ==
    /\ pc[t] = "alloc_ptr"
    /\ LET i == bucketSize - bytesLeft IN
       IF /\ curBucket >= 0
          /\ curBucket < Len(buckets)
          /\ i >= 0
          /\ i < heap[buckets[curBucket + 1]].len
       THEN /\ ptr' = [ptr EXCEPT ![t] = [bucket |-> buckets[curBucket + 1], off |-> i]]
            /\ pc' = [pc EXCEPT ![t] = "alloc_dec"]
       ELSE /\ pc' = [pc EXCEPT ![t] = "panic"]
            /\ UNCHANGED ptr
    /\ UNCHANGED <<arena, heap, nextId, size, ret, calls, handles, boundaries>>

\* AllocDec that takes one byte off bytesLeft whatever the size of the value.
AllocDec_OneByte(t) ==
    /\ pc[t] = "alloc_dec"
    /\ bytesLeft' = bytesLeft - 1
    /\ handles' = Append(handles,
                         [bucket |-> ptr[t].bucket, off |-> ptr[t].off,
                          size |-> size[t], epoch |-> Len(boundaries),
                          val |-> NoVal])
    /\ ret' = [ret EXCEPT ![t].id = Len(handles) + 1]
    /\ pc' = [pc EXCEPT ![t] = "alloc_store"]
    /\ UNCHANGED <<buckets, curBucket, bucketSize, arg, writing, heap, nextId,
                   size, ptr, calls, boundaries>>

\* Alloc, line 134: a.bytesLeft -= size.  The slot is now placed: the history
\* records it with the number of Reset/Clear executed so far.
AllocDec(t) ==
    /\ pc[t] = "alloc_dec"
    /\ bytesLeft' = bytesLeft - size[t]
    /\ handles' = Append(handles,
                         [bucket |-> ptr[t].bucket, off |-> ptr[t].off,
                          size |-> size[t], epoch |-> Len(boundaries),
                          val |-> NoVal])
    /\ ret' = [ret EXCEPT ![t].id = Len(handles) + 1]
    /\ pc' = [pc EXCEPT ![t] = "alloc_store"]
    /\ UNCHANGED <<buckets, curBucket, bucketSize, arg, writing, heap, nextId,
                   size, ptr, calls, boundaries>>

\* Alloc, line 135: a.writing.Store(false).
AllocRelease(t) ==
    /\ pc[t] = "alloc_store"
    /\ writing' = FALSE
    /\ pc' = [pc EXCEPT ![t] = "alloc_ret"]
    /\ UNCHANGED <<buckets, curBucket, bytesLeft, bucketSize, arg, heap, nextId,
                   size, ptr, ret, calls, handles, boundaries>>

\* Alloc, line 137: return weak.Make((*T)(ptr)), nil.  The strong reference
\* `ptr` dies with the call; the caller holds a weak pointer.
AllocReturn(t) ==
    /\ pc[t] = "alloc_ret"
    /\ ret' = [ret EXCEPT ![t] =
                  [handle |-> [bucket |-> ptr[t].bucket, off |-> ptr[t].off,
                               size |-> size[t]],
                   err |-> "nil", id |-> ret[t].id]]
    /\ ptr' = [ptr EXCEPT ![t] = NoPtr]
    /\ size' = [size EXCEPT ![t] = 0]
    /\ pc' = [pc EXCEPT ![t] = "idle"]
    /\ UNCHANGED <<arena, heap, nextId, calls, handles, boundaries>>

\* ------------------------------------------------------------- Reset
ResetEnter(t) ==
    /\ pc[t] = "idle"
    /\ pc' = [pc EXCEPT ![t] = "reset_cas"]
    /\ ret' = [ret EXCEPT ![t] = NoRet]
    /\ calls' = [calls EXCEPT ![t] = @ + 1]
    /\ UNCHANGED <<arena, heap, nextId, size, ptr, handles, boundaries>>

\* Reset, lines 147-148.
ResetAcquire(t) ==
    /\ pc[t] = "reset_cas"
    /\ writing = FALSE
    /\ writing' = TRUE
    /\ pc' = [pc EXCEPT ![t] = "reset_body"]
    /\ UNCHANGED <<buckets, curBucket, bytesLeft, bucketSize, arg, heap, nextId,
                   size, ptr, ret, calls, handles, boundaries>>

\* ResetBody that also drops the bucket list, as Clear does.
ResetBody_AsClear(t) ==
    /\ pc[t] = "reset_body"
    /\ buckets' = << >>
    /\ bytesLeft' = bucketSize
    /\ curBucket' = 0
    /\ boundaries' = Append(boundaries,
                            [kind |-> "reset", nb |-> Len(buckets), mark |-> nextId])
    /\ pc' = [pc EXCEPT ![t] = "reset_store"]
    /\ UNCHANGED <<bucketSize, arg, writing, heap, nextId, size, ptr, ret, calls, handles>>

\* ResetBody that also zeroes the bytes of every bucket.
ResetBody_Zeroes(t) ==
    /\ pc[t] = "reset_body"
    /\ bytesLeft' = bucketSize
    /\ curBucket' = 0
    /\ heap' = [b \in DOMAIN heap |-> [heap[b] EXCEPT !.data = << >>]]
    /\ boundaries' = Append(boundaries,
                            [kind |-> "reset", nb |-> Len(buckets), mark |-> nextId])
    /\ pc' = [pc EXCEPT ![t] = "reset_store"]
    /\ UNCHANGED <<buckets, bucketSize, arg, writing, nextId,
                   size, ptr, ret, calls, handles>>

\* ResetBody without a.curBucket = 0.
ResetBody_KeepsCurBucket(t) ==
    /\ pc[t] = "reset_body"
    /\ bytesLeft' = bucketSize
    /\ boundaries' = Append(boundaries,
                            [kind |-> "reset", nb |-> Len(buckets), mark |-> nextId])
    /\ pc' = [pc EXCEPT ![t] = "reset_store"]
    /\ UNCHANGED <<buckets, curBucket, bucketSize, arg, writing, heap, nextId,
                   size, ptr, ret, calls, handles>>

\* Reset, lines 150-151.
ResetBody(t) ==
    /\ pc[t] = "reset_body"
    /\ bytesLeft' = bucketSize
    /\ curBucket' = 0
    /\ boundaries' = Append(boundaries,
                            [kind |-> "reset", nb |-> Len(buckets), mark |-> nextId])
    /\ pc' = [pc EXCEPT ![t] = "reset_store"]
    /\ UNCHANGED <<buckets, bucketSize, arg, writing, heap, nextId,
                   size, ptr, ret, calls, handles>>

\* Reset, line 153.
ResetRelease(t) ==
    /\ pc[t] = "reset_store"
    /\ writing' = FALSE
    /\ pc' = [pc EXCEPT ![t] = "idle"]
    /\ UNCHANGED <<buckets, curBucket, bytesLeft, bucketSize, arg, heap, nextId,
                   size, ptr, ret, calls, handles, boundaries>>

\* ------------------------------------------------------------- Clear
ClearEnter(t) ==
    /\ pc[t] = "idle"
    /\ pc' = [pc EXCEPT ![t] = "clear_cas"]
    /\ ret' = [ret EXCEPT ![t] = NoRet]
    /\ calls' = [calls EXCEPT ![t] = @ + 1]
    /\ UNCHANGED <<arena, heap, nextId, size, ptr, handles, boundaries>>

\* Clear, lines 163-164.
ClearAcquire(t) ==
    /\ pc[t] = "clear_cas"
    /\ writing = FALSE
    /\ writing' = TRUE
    /\ pc' = [pc EXCEPT ![t] = "clear_body"]
    /\ UNCHANGED <<buckets, curBucket, bytesLeft, bucketSize, arg, heap, nextId,
                   size, ptr, ret, calls, handles, boundaries>>

\* ClearBody that rewinds the cursor but keeps the bucket list.
ClearBody_KeepsBuckets(t) ==
    /\ pc[t] = "clear_body"
    /\ bytesLeft' = bucketSize
    /\ curBucket' = 0
    /\ boundaries' = Append(boundaries,
                            [kind |-> "clear", nb |-> Len(buckets), mark |-> nextId])
    /\ pc' = [pc EXCEPT ![t] = "clear_store"]
    /\ UNCHANGED <<buckets, bucketSize, arg, writing, heap, nextId,
                   size, ptr, ret, calls, handles>>

\* ClearBody without a.bytesLeft = a.bucketSize.
ClearBody_KeepsBytesLeft(t) ==
    /\ pc[t] = "clear_body"
    /\ buckets' = << >>
    /\ curBucket' = 0
    /\ boundaries' = Append(boundaries,
                            [kind |-> "clear", nb |-> Len(buckets), mark |-> nextId])
    /\ pc' = [pc EXCEPT ![t] = "clear_store"]
    /\ UNCHANGED <<bytesLeft, bucketSize, arg, writing, heap, nextId,
                   size, ptr, ret, calls, handles>>

\* ClearBody without a.curBucket = 0.
ClearBody_KeepsCurBucket(t) ==
    /\ pc[t] = "clear_body"
    /\ buckets' = << >>
    /\ bytesLeft' = bucketSize
    /\ boundaries' = Append(boundaries,
                            [kind |-> "clear", nb |-> Len(buckets), mark |-> nextId])
    /\ pc' = [pc EXCEPT ![t] = "clear_store"]
    /\ UNCHANGED <<curBucket, bucketSize, arg, writing, heap, nextId,
                   size, ptr, ret, calls, handles>>

\* Clear, lines 166-168.
ClearBody(t) ==
    /\ pc[t] = "clear_body"
    /\ buckets' = << >>
    /\ bytesLeft' = bucketSize
    /\ curBucket' = 0
    /\ boundaries' = Append(boundaries,
                            [kind |-> "clear", nb |-> Len(buckets), mark |-> nextId])
    /\ pc' = [pc EXCEPT ![t] = "clear_store"]
    /\ UNCHANGED <<bucketSize, arg, writing, heap, nextId, size, ptr, ret, calls, handles>>

\* Clear, line 170.
ClearRelease(t) ==
    /\ pc[t] = "clear_store"
    /\ writing' = FALSE
    /\ pc' = [pc EXCEPT ![t] = "idle"]
    /\ UNCHANGED <<buckets, curBucket, bytesLeft, bucketSize, arg, heap, nextId,
                   size, ptr, ret, calls, handles, boundaries>>

\* ------------------------------------------------- the caller and the GC
\* The caller stores v through the weak pointer its last Alloc returned, as
\* the tests do (*val.Value() = v): every byte of the slot receives v.
Write(t, v) ==
    /\ pc[t] = "idle"
    /\ ret[t].err = "nil"
    /\ Resolves(ret[t].handle)
    /\ handles[ret[t].id].val = NoVal
    /\ LET h == ret[t].handle
           cells == {h.off + k : k \in 0..(h.size - 1)}
           old == heap[h.bucket].data
       IN  heap' = [heap EXCEPT ![h.bucket].data =
                       [o \in (DOMAIN old) \cup cells |->
                           IF o \in cells THEN v ELSE old[o]]]
    /\ handles' = [handles EXCEPT ![ret[t].id].val = v]
    /\ UNCHANGED <<arena, nextId, pc, size, ptr, ret, calls, boundaries>>

\* The garbage collector frees a bucket that neither the Arena's bucket list
\* nor the local `ptr` of a running Alloc references.  Weak pointers do not
\* keep a bucket alive.
Collect(b) ==
    /\ b \in DOMAIN heap
    /\ b \notin Range(buckets)
    /\ \A t \in Threads : ptr[t] = NoPtr \/ ptr[t].bucket # b
    /\ heap' = [c \in (DOMAIN heap) \ {b} |-> heap[c]]
    /\ UNCHANGED <<arena, nextId, pc, size, ptr, ret, calls, handles, boundaries>>

\* ------------------------------------------------------- specifications
AllocSteps(t) ==
    \/ AllocAcquire(t)
    \/ AllocGrow(t)
    \/ AllocPtr(t)
    \/ AllocDec(t)
    \/ AllocRelease(t)
    \/ AllocReturn(t)

ResetSteps(t) ==
    \/ ResetEnter(t)
    \/ ResetAcquire(t)
    \/ ResetBody(t)
    \/ ResetRelease(t)

ClearSteps(t) ==
    \/ ClearEnter(t)
    \/ ClearAcquire(t)
    \/ ClearBody(t)
    \/ ClearRelease(t)

\* A caller of the package: any call, and possibly a store through the weak
\* pointer it got, stamped with the history index of the slot.
Step(t) ==
    \/ \E s \in AllocSizes : AllocEnter(t, s)
    \/ AllocSteps(t)
    \/ ResetSteps(t)
    \/ ClearSteps(t)
    \/ (ret[t].err = "nil" /\ Write(t, ret[t].id))

\* Goroutines are interchangeable, so runs are explored up to renaming them:
\* a goroutine makes its first call after every lower-numbered one has.
InOrder(t) == calls[t] = 0 => \A u \in 1..(t - 1) : calls[u] > 0

\* Spec: NumThreads goroutines, any calls, at most MaxOps of them.
Next ==
    \/ \E t \in Threads :
          /\ pc[t] = "idle" => (TotalCalls < MaxOps /\ InOrder(t))
          /\ Step(t)
    \/ \E b \in DOMAIN heap : Collect(b)

Spec == Init /\ [][Next]_vars

\* SpecSeq: one goroutine, any calls, at most MaxSeqOps of them.
SeqNext ==
    \/ (pc[1] = "idle" => calls[1] < MaxSeqOps) /\ Step(1)
    \/ \E b \in DOMAIN heap : Collect(b)

SpecSeq == Init /\ [][SeqNext]_vars

\* SpecRefill: one goroutine that only allocates and resets, at most
\* MaxRefillOps calls.
RefillNext ==
    /\ pc[1] = "idle" => calls[1] < MaxRefillOps
    /\ \/ \E s \in AllocSizes : AllocEnter(1, s)
       \/ AllocSteps(1)
       \/ ResetSteps(1)

SpecRefill == Init /\ [][RefillNext]_vars

\* SpecCalls: one goroutine that allocates, resets and clears, at most
\* MaxRefillOps calls; nothing is stored and nothing is collected.
CallsNext ==
    /\ pc[1] = "idle" => calls[1] < MaxRefillOps
    /\ \/ \E s \in AllocSizes : AllocEnter(1, s)
       \/ AllocSteps(1)
       \/ ResetSteps(1)
       \/ ClearSteps(1)

SpecCalls == Init /\ [][CallsNext]_vars

\* SpecConcurrent: TestAllocConcurrent (src/arena_test.go:169-192) with
\* NumThreads goroutines in place of 50.  The Arena has room for exactly
\* CallsPerThread bytes per goroutine; goroutine number i (from 0) allocates a
\* byte and stores CallsPerThread*i in it, then allocates a second byte and
\* stores CallsPerThread*i + 1 in it.
InitConcurrent ==
    /\ NewArena(CallsPerThread * NumThreads)
    /\ InitThreads

Stored(t) == ret[t].err = "nil" => handles[ret[t].id].val # NoVal

TestByte(t) == CallsPerThread * (t - 1) + (calls[t] - 1)

ConcurrentNext ==
    \E t \in Threads :
        \/ (calls[t] < CallsPerThread /\ InOrder(t) /\ Stored(t) /\ AllocEnter(t, 1))
        \/ AllocSteps(t)
        \/ Write(t, TestByte(t))

SpecConcurrent == InitConcurrent /\ [][ConcurrentNext]_vars

\* ------------------------------------------------------------- claims
Epoch == Len(boundaries)
Placed == 1..Len(handles)

\* The byte ranges of two slots have no byte in common.
Disjoint(g, h) ==
    \/ g.bucket # h.bucket
    \/ g.off + g.size <= h.off
    \/ h.off + h.size <= g.off

\* The bytes of a slot, as (bucket, offset) pairs.
Cells(h) == {<<h.bucket, h.off + k>> : k \in 0..(h.size - 1)}

MutatingPcs == {"alloc_grow", "alloc_ptr", "alloc_dec", "alloc_store", "panic",
                "reset_body", "reset_store", "clear_body", "clear_store"}
InSection == {t \in Threads : pc[t] \in MutatingPcs}

\* C2: at most one goroutine is inside the mutating section of Alloc, Reset
\* or Clear at any time, and only while `writing` is set.
C2_MutualExclusion ==
    /\ Cardinality(InSection) <= 1
    /\ InSection # {} => writing

\* One goroutine is inside its section while another spins on the guard.
C2_Witness ==
    \E t, u \in Threads :
        /\ t # u
        /\ pc[t] \in MutatingPcs \ {"panic"}
        /\ pc[u] \in {"alloc_cas", "reset_cas", "clear_cas"}

\* Every goroutine of TestAllocConcurrent has made and stored its allocations.
AllDone ==
    \A t \in Threads : calls[t] = CallsPerThread /\ pc[t] = "idle" /\ Stored(t)

\* C3: when NumThreads goroutines have each made two one-byte allocations on
\* an Arena of 2*NumThreads bytes, the slots are pairwise distinct, all lie in
\* bucket 0, cover offsets 0..2*NumThreads-1, NumBuckets is still 1, and
\* every byte holds what was stored through its own slot, the stored bytes
\* being 0..2*NumThreads-1 without duplicates.
C3_ConcurrentAlloc ==
    AllDone =>
        /\ Len(handles) = CallsPerThread * NumThreads
        /\ \A i, j \in Placed : i # j => Slot(handles[i]) # Slot(handles[j])
        /\ \A i \in Placed : handles[i].bucket = buckets[1] /\ handles[i].size = 1
        /\ {handles[i].off : i \in Placed} = 0..(CallsPerThread * NumThreads - 1)
        /\ NumBuckets = 1
        /\ \A i \in Placed : ByteAt(handles[i].bucket, handles[i].off) = handles[i].val
        /\ {ByteAt(buckets[1], o) : o \in 0..(bucketSize - 1)}
               = 0..(CallsPerThread * NumThreads - 1)

\* All goroutines are done, the last slot having been placed by goroutine 1.
C3_Witness ==
    /\ AllDone
    /\ Len(handles) = CallsPerThread * NumThreads
    /\ handles[Len(handles)].val = TestByte(1)

ValueTooLarge == [handle |-> NilHandle, err |-> "ValueToLargeErr", id |-> 0]

\* C4: an Alloc call whose size exceeds the bucket size returns
\* ValueToLargeErr with a weak pointer that resolves to nothing, and leaves
\* the bucket list, the cursor (hence NumBuckets and TotalMemBytes), the
\* buckets' bytes and the guard as they were.
C4_TooLargeLeavesArena ==
    [][\A t \in Threads : \A s \in AllocSizes :
          (s > bucketSize /\ AllocEnter(t, s)) =>
              /\ ret'[t].err = "ValueToLargeErr"
              /\ ~Resolves(ret[t].handle)'
              /\ pc'[t] = "idle"
              /\ UNCHANGED <<buckets, curBucket, bytesLeft, bucketSize, writing,
                             heap, handles>>
              /\ NumBuckets' = NumBuckets
              /\ TotalMemBytes' = TotalMemBytes]_vars

\* A call was refused on an Arena that holds a slot already.
C4_Witness ==
    \E t \in Threads :
        /\ ret[t] = ValueTooLarge
        /\ pc[t] = "idle"
        /\ Len(handles) > 0

\* C5: an Alloc that passed the size precondition (0 <= size <= bucket size)
\* never aborts, and the slot it returns lies inside a bucket of the Arena's
\* list at the time it was placed.
C5_AllocNeverFails ==
    /\ \A t \in Threads : pc[t] # "panic"
    /\ \A t \in Threads :
          pc[t] \in {"alloc_dec", "alloc_store"} =>
              /\ ptr[t].bucket \in Range(buckets)
              /\ ptr[t].off + size[t] <= bucketSize

\* The Clears executed after slot i was placed, and those executed before.
ClearsAfter(i) == {k \in (handles[i].epoch + 1)..Epoch : boundaries[k].kind = "clear"}
ClearsBefore(i) == {k \in 1..handles[i].epoch : boundaries[k].kind = "clear"}

\* Every bucket the Arena no longer references has been collected.
Reclaimed == DOMAIN heap \subseteq Range(buckets)

C6_State ==
    /\ Reclaimed =>
          \A i \in Placed : ClearsAfter(i) # {} => ~Resolves(handles[i])
    /\ \A i \in Placed :
          /\ \A k \in ClearsBefore(i) : handles[i].bucket >= boundaries[k].mark
          /\ (ClearsBefore(i) # {} /\ ClearsAfter(i) = {}) =>
                 /\ Resolves(handles[i])
                 /\ handles[i].off + handles[i].size <= heap[handles[i].bucket].len

C6_Step ==
    \A i \in Placed : ~Resolves(handles[i]) => ~Resolves(handles[i])'

\* C6: once a Clear has run and the buckets the Arena no longer references
\* are collected, every weak pointer placed before the Clear resolves to
\* nothing, and a weak pointer that resolves to nothing never resolves again;
\* every weak pointer placed after a Clear resolves (until the next Clear) to
\* a slot of a bucket made after that Clear.
C6_ClearInvalidates == [][C6_Step]_vars /\ []C6_State

\* A pointer from before the Clear is dead, one from after it resolves.
C6_Witness ==
    /\ Reclaimed
    /\ \E i, j \in Placed :
          /\ ClearsAfter(i) # {} /\ ~Resolves(handles[i])
          /\ ClearsBefore(j) # {} /\ Resolves(handles[j])

LastClear ==
    IF \E k \in 1..Epoch : boundaries[k].kind = "clear"
    THEN CHOOSE k \in 1..Epoch :
             /\ boundaries[k].kind = "clear"
             /\ \A m \in 1..Epoch : boundaries[m].kind = "clear" => m <= k
    ELSE 0

\* A Clear has run and no slot was placed since.
NothingSinceClear == LastClear > 0 /\ \A i \in Placed : handles[i].epoch < LastClear

\* C7: Clear leaves an empty bucket list (NumBuckets = 0, TotalMemBytes = 0),
\* current bucket index 0 and bytesLeft = bucket size; the next Alloc that
\* passes the size precondition appends exactly one bucket that never existed
\* before and places its value at offset 0 of it.
C7_ClearThenAlloc ==
    [][\A t \in Threads :
          /\ (pc[t] = "clear_body" /\ pc'[t] # "clear_body") =>
                 /\ buckets' = << >>
                 /\ NumBuckets' = 0
                 /\ TotalMemBytes' = 0
                 /\ curBucket' = 0
                 /\ bytesLeft' = bucketSize
                 /\ bucketSize' = bucketSize
          /\ (NothingSinceClear /\ pc[t] = "alloc_grow" /\ pc'[t] # "alloc_grow") =>
                 /\ Len(buckets) = 0
                 /\ Len(buckets') = 1
                 /\ buckets'[1] >= nextId
                 /\ buckets'[1] \notin DOMAIN heap
                 /\ heap'[buckets'[1]] = newBucket(bucketSize)
          /\ (NothingSinceClear /\ pc[t] = "alloc_ptr" /\ pc'[t] # "alloc_ptr") =>
                 /\ pc'[t] = "alloc_dec"
                 /\ Len(buckets) = 1
                 /\ ptr'[t] = [bucket |-> buckets[1], off |-> 0]
          /\ (NothingSinceClear /\ pc[t] = "alloc_dec" /\ pc'[t] # "alloc_dec") =>
                 /\ handles'[Len(handles')].off = 0
                 /\ handles'[Len(handles')].bucket = buckets[1]]_vars

\* After two allocations had moved the cursor, a Clear ran and the next
\* Alloc has returned.
C7_Witness ==
    /\ LastClear > 0
    /\ boundaries[LastClear].nb > 1
    /\ \E t \in Threads :
          /\ pc[t] = "idle"
          /\ ret[t].err = "nil"
          /\ handles[ret[t].id].epoch >= LastClear
          /\ ret[t].handle.size > 0

\* C8: Reset sets the current bucket index to 0 and bytesLeft to the bucket
\* size and changes nothing else: not the bucket list, not a bucket's
\* identity, length or bytes, not NumBuckets, TotalMemBytes or the bucket size.
C8_ResetOnlyCursor ==
    [][\A t \in Threads :
          (pc[t] = "reset_body" /\ pc'[t] # "reset_body") =>
              /\ curBucket' = 0
              /\ bytesLeft' = bucketSize
              /\ UNCHANGED <<buckets, heap, bucketSize, nextId>>
              /\ NumBuckets' = NumBuckets
              /\ TotalMemBytes' = TotalMemBytes
              /\ BucketSizeBytes' = BucketSizeBytes]_vars

\* A Reset has run on an Arena of two buckets whose cursor had moved and whose
\* bytes had been written.
C8_Witness ==
    /\ Epoch > 0
    /\ boundaries[Epoch].kind = "reset"
    /\ boundaries[Epoch].nb > 1
    /\ NumBuckets > 1
    /\ curBucket = 0
    /\ bytesLeft = bucketSize
    /\ \E i \in Placed : handles[i].val # NoVal /\ Resolves(handles[i])

\* The sizes placed in epoch e, in order, and their total.
RECURSIVE SizesFrom(_, _)
SizesFrom(e, i) ==
    IF i > Len(handles) THEN << >>
    ELSE IF handles[i].epoch = e THEN <<handles[i].size>> \o SizesFrom(e, i + 1)
    ELSE SizesFrom(e, i + 1)
Sizes(e) == SizesFrom(e, 1)

RECURSIVE SeqSum(_)
SeqSum(q) == IF q = << >> THEN 0 ELSE Head(q) + SeqSum(Tail(q))
Volume(e) == SeqSum(Sizes(e))

AfterReset == pc[1] = "idle" /\ Epoch > 0 /\ boundaries[Epoch].kind = "reset"

\* C9 as stated: after a Reset, once the values allocated since it have the
\* same total byte volume as those allocated before it, the bucket count is
\* at most the bucket count before the Reset.
C9_SameVolumeRefill ==
    (AfterReset /\ Volume(Epoch) = Volume(Epoch - 1))
        => NumBuckets <= boundaries[Epoch].nb

\* C9 amended: after a Reset, once the same sequence of sizes has been
\* allocated again as was allocated between the previous Reset (or the
\* construction) and this Reset, the bucket count is at most the bucket count
\* before the Reset.
C9_SameSizesRefill ==
    (AfterReset /\ Sizes(Epoch) = Sizes(Epoch - 1))
        => NumBuckets <= boundaries[Epoch].nb

\* A refill of at least two values that went on into the second bucket.
C9_Witness ==
    /\ AfterReset
    /\ Sizes(Epoch) = Sizes(Epoch - 1)
    /\ Len(Sizes(Epoch)) >= 2
    /\ curBucket >= 1
    /\ NumBuckets = boundaries[Epoch].nb

C10_State ==
    \A i \in Placed :
        ClearsAfter(i) = {} =>
            /\ Resolves(handles[i])
            /\ handles[i].bucket \in Range(buckets)
            /\ handles[i].val # NoVal =>
                   \A c \in Cells(handles[i]) :
                       \/ ByteAt(c[1], c[2]) = handles[i].val
                       \/ \E j \in Placed :
                              /\ j > i
                              /\ c \in Cells(handles[j])
                              /\ handles[j].val # NoVal
                              /\ ByteAt(c[1], c[2]) = handles[j].val

C10_Step ==
    \A t \in Threads :
        (pc[t] = "reset_body" /\ pc'[t] # "reset_body") => heap' = heap

\* C10: while no Clear runs, a weak pointer placed before a Reset keeps
\* resolving into a bucket of the Arena's list; Reset changes no stored byte;
\* and the bytes of a written slot read as written until a slot placed later
\* that overlaps them is written.  (The caller stores through each pointer once,
\* before its next call.)
C10_ResetKeepsHandles == [][C10_Step]_vars /\ []C10_State

\* After a Reset a later Alloc has handed out the slot of an earlier, written
\* pointer, which still reads its value because the new slot is not written.
C10_Witness ==
    \E i, j \in Placed :
        /\ i < j
        /\ handles[i].epoch < handles[j].epoch
        /\ ClearsAfter(i) = {}
        /\ ~Disjoint(handles[i], handles[j])
        /\ handles[i].val # NoVal
        /\ handles[j].val = NoVal
        /\ \A c \in Cells(handles[i]) : ByteAt(c[1], c[2]) = handles[i].val

CeilDiv(a, b) == (a + b - 1) \div b

\* Only allocations of one size S >= 1 were made on the Arena as constructed.
Uniform(S) ==
    /\ pc[1] = "idle"
    /\ Epoch = 0
    /\ Len(handles) >= 1
    /\ \A i \in Placed : handles[i].size = S

RECURSIVE LenSum(_)
LenSum(q) == IF q = << >> THEN 0 ELSE heap[Head(q)].len + LenSum(Tail(q))

\* C12: in every reachable state TotalMemBytes is BucketSizeBytes times
\* NumBuckets, every bucket of the list is exactly BucketSizeBytes long, and
\* so TotalMemBytes is the memory the list really holds.
C12_TotalMem ==
    /\ TotalMemBytes = BucketSizeBytes * NumBuckets
    /\ \A b \in Range(buckets) : b \in DOMAIN heap /\ heap[b].len = BucketSizeBytes
    /\ TotalMemBytes = LenSum(buckets)

\* After a Clear the list was grown again to two buckets, and the last call
\* was an Alloc that was refused.
C12_Witness ==
    /\ LastClear > 0
    /\ NumBuckets = 2
    /\ TotalMemBytes = 2 * bucketSize
    /\ ret[1] = ValueTooLarge

\* C13: the bucket size is the argument of NewArena when that is positive and
\* 65536 when it is 0, and BucketSizeBytes returns that value in every state
\* reached by Alloc, Reset and Clear.
C13_BucketSizeFixed ==
    /\ arg > 0 => BucketSizeBytes = arg
    /\ arg = 0 => BucketSizeBytes = 65536
    /\ BucketSizeBytes > 0

\* NewArena(0), then an Alloc, a Reset and a Clear.
C13_Witness ==
    /\ arg = 0
    /\ BucketSizeBytes = 65536
    /\ Len(handles) > 0
    /\ LastClear > 0
    /\ \E k \in 1..Epoch : boundaries[k].kind = "reset"

\* The slots placed in epoch e, in order.
RECURSIVE SlotsFrom(_, _)
SlotsFrom(e, i) ==
    IF i > Len(handles) THEN << >>
    ELSE IF handles[i].epoch = e THEN <<Slot(handles[i])>> \o SlotsFrom(e, i + 1)
    ELSE SlotsFrom(e, i + 1)
Slots(e) == SlotsFrom(e, 1)

IsPrefix(p, q) == Len(p) <= Len(q) /\ p = SubSeq(q, 1, Len(p))

\* C14: after a Reset, as long as the sizes allocated since it repeat, in
\* order, the sizes allocated between the previous Reset (or the
\* construction) and it, the slots returned are the same slots (same bucket,
\* same offset) in the same order, and no bucket has been appended.
C14_ReplayAliases ==
    (Epoch > 0 /\ boundaries[Epoch].kind = "reset"
               /\ IsPrefix(Sizes(Epoch), Sizes(Epoch - 1))) =>
        /\ IsPrefix(Slots(Epoch), Slots(Epoch - 1))
        /\ pc[1] = "idle" => NumBuckets = boundaries[Epoch].nb

\* The whole sequence, of at least two values of which one is larger than
\* another, has been replayed, the last value into the second bucket again.
C14_Witness ==
    /\ AfterReset
    /\ Sizes(Epoch) = Sizes(Epoch - 1)
    /\ Len(Sizes(Epoch)) >= 2
    /\ \E i, j \in Placed : handles[i].size < handles[j].size /\ handles[i].size > 0
    /\ NumBuckets >= 2
    /\ handles[Len(handles)].bucket = buckets[2]
    /\ Slots(Epoch) = Slots(Epoch - 1)

\* ---------------------------------------------------------------- C15
\* Goroutine t executes lines 121-131 in this step.
GrowStep(t) == pc[t] = "alloc_grow" /\ pc'[t] = "alloc_ptr"

\* C15: the bucket list gets longer only in the grow step of an Alloc, by
\* exactly one bucket, and only when the list is empty or the cursor is on
\* the last bucket with fewer bytes left than the value needs; a grow step
\* with the cursor on a non-last bucket that is too full moves the cursor to
\* the next bucket and leaves the list alone; the list gets shorter only in
\* the body of Clear, which empties it.
C15_Step ==
    /\ Len(buckets') > Len(buckets) =>
          \E t \in Threads :
              /\ GrowStep(t)
              /\ Len(buckets') = Len(buckets) + 1
              /\ \/ Len(buckets) = 0
                 \/ curBucket = Len(buckets) - 1 /\ bytesLeft < size[t]
    /\ \A t \in Threads :
          (/\ GrowStep(t)
           /\ Len(buckets) > 0
           /\ curBucket < Len(buckets) - 1
           /\ bytesLeft < size[t]) =>
              /\ buckets' = buckets
              /\ curBucket' = curBucket + 1
    /\ Len(buckets') < Len(buckets) =>
          /\ Len(buckets') = 0
          /\ \E t \in Threads : pc[t] = "clear_body" /\ pc'[t] = "clear_store"

C15_GrowthOnlyInAlloc == [][C15_Step]_vars

\* Two buckets filled, a Reset, both buckets refilled without a third being
\* appended, then a Clear that emptied the list.
C15_Witness ==
    /\ NumBuckets = 0
    /\ Epoch >= 2
    /\ boundaries[Epoch].kind = "clear"
    /\ boundaries[Epoch - 1].kind = "reset"
    /\ boundaries[Epoch - 1].nb = 2
    /\ boundaries[Epoch].nb = 2
    /\ \E i \in Placed : /\ handles[i].epoch = Epoch - 1
                         /\ handles[i].bucket # handles[1].bucket

\* ---------------------------------------------------------------- C16
\* Goroutine t executes line 134 in this step: its slot is placed.
PlaceStep(t) == pc[t] = "alloc_dec" /\ pc'[t] = "alloc_store"

\* A value that does not fit in the space left moves the cursor to the start
\* of the next bucket; the slot placed in this step starts at
\* bucketSize - bytesLeft in the current bucket; the slot a call returns is
\* the slot it placed.
C16_Step ==
    \A t \in Threads :
        /\ (GrowStep(t) /\ Len(buckets) > 0 /\ bytesLeft < size[t]) =>
              /\ curBucket' = curBucket + 1
              /\ bytesLeft' = bucketSize
        /\ PlaceStep(t) =>
              LET h == handles'[Len(handles')] IN
              /\ h.size = size[t]
              /\ h.off = bucketSize - bytesLeft
              /\ h.bucket = buckets[curBucket + 1]
        /\ (pc[t] = "alloc_ret" /\ pc'[t] = "idle") =>
              /\ ret'[t].err = "nil"
              /\ ret'[t].handle = Slot(handles[ret[t].id])

\* Every placed slot lies inside one bucket; the first slot after the
\* construction, a Reset or a Clear starts at offset 0; a slot follows the one
\* before it in the same bucket when it fits in the space left there, and
\* starts at offset 0 of another bucket when it does not.
C16_State ==
    \A i \in Placed :
        LET h == handles[i] IN
        /\ h.off >= 0
        /\ h.off + h.size <= bucketSize
        /\ h.bucket \in DOMAIN heap => h.off + h.size <= heap[h.bucket].len
        /\ (i = 1 \/ handles[i - 1].epoch # h.epoch) => h.off = 0
        /\ (i > 1 /\ handles[i - 1].epoch = h.epoch) =>
              LET g == handles[i - 1] IN
              IF g.off + g.size + h.size <= bucketSize
              THEN h.bucket = g.bucket /\ h.off = g.off + g.size
              ELSE h.bucket # g.bucket /\ h.off = 0

\* C16: a successful Alloc of size s returns the slot at offset
\* bucketSize - bytesLeft of the current bucket, the slot lies wholly inside
\* one bucket, and a value that does not fit in the space left is placed at
\* offset 0 of the next bucket.
C16_SlotPlacement == [][C16_Step]_vars /\ []C16_State

\* A call returned a slot at offset 0 of a second bucket although the slot
\* before it left free bytes in the first.
C16_Witness ==
    /\ pc[1] = "idle"
    /\ ret[1].err = "nil"
    /\ ret[1].id > 1
    /\ LET h == handles[ret[1].id]
           g == handles[ret[1].id - 1] IN
       /\ g.epoch = h.epoch
       /\ g.off + g.size < bucketSize
       /\ h.bucket # g.bucket
       /\ h.off = 0
       /\ ret[1].handle = Slot(h)

\* ---------------------------------------------------------------- C17
\* C17: in every reachable state, under any interleaving of Alloc, Reset and
\* Clear, 0 <= bytesLeft <= bucketSize: the subtraction at line 134 never
\* takes more bytes than are left.
C17_BytesLeftInRange == 0 <= bytesLeft /\ bytesLeft <= bucketSize

\* The second of two allocations has just taken the last bytes of a bucket.
C17_Witness ==
    \E t \in Threads :
        /\ pc[t] = "alloc_store"
        /\ size[t] > 0
        /\ bytesLeft = 0
        /\ Len(handles) >= 2
        /\ handles[Len(handles)].off > 0

NoneInProgress == \A t \in Threads : pc[t] \in {"idle", "panic"}

\* C19: the guard is released after every mutating section, so whenever no
\* operation is in progress `writing` is false and a later operation can
\* acquire the guard.
C19_GuardFreeWhenIdle == NoneInProgress => ~writing

\* ---------------------------------------------------------------- C20
\* No slot has been placed and neither Reset nor Clear has run.
Fresh == Len(handles) = 0 /\ Epoch = 0

\* C20: a newly constructed Arena owns exactly one bucket before any
\* allocation: NumBuckets = 1, TotalMemBytes = bucketSize, curBucket = 0 and
\* bytesLeft = bucketSize; the bucket list is empty only after a Clear with
\* no slot placed since.
C20_FreshArenaHasOneBucket ==
    /\ Fresh => /\ NumBuckets = 1
                /\ TotalMemBytes = bucketSize
                /\ LenSum(buckets) = bucketSize
                /\ curBucket = 0
                /\ bytesLeft = bucketSize
    /\ NumBuckets = 0 => NothingSinceClear

\* The first Alloc, of a value as large as a bucket, has passed lines 121-131
\* and found the bucket NewArena created.
C20_Witness ==
    /\ Fresh
    /\ pc[1] = "alloc_ptr"
    /\ size[1] = bucketSize
    /\ NumBuckets = 1
    /\ nextId = 2

====
